---- MODULE Spec2Model ----
(***************************************************************************)
(* Color matching game (src/app.py).  A Streamlit script: every event of   *)
(* the page (first load, a slider moved, a button pressed) runs main()     *)
(* once against the session's st.session_state.                            *)
(*                                                                         *)
(* Scores are percentages with one decimal; the model keeps them as        *)
(* integer tenths (100.0 is 1000, 18.3 is 183).  An optional value is a    *)
(* sequence of length at most one: None is <<>>, a set value x is <<x>>.   *)
(***************************************************************************)
EXTENDS Integers, Sequences, FiniteSets, TLC

VARIABLES
    session_state,  \* st.session_state: a function from the keys present to their values
    slider,         \* <<slider_r, slider_g, slider_b>>, the widgets' current values
    score_log,      \* history variable: every score submit_answer computed, oldest first
    last_call       \* history variable: the last of submit_answer / reset_game that ran

vars == <<session_state, slider, score_log, last_call>>

-----------------------------------------------------------------------------
(* Bounds of the model *)

\* submissions explored per session
MaxSubmits == 6

\* channel values per axis of the sampled color grid used for calculate_similarity
SimLevels == 5

\* colors random.randint is sampled at in the session model
TargetSamples == {<<0, 0, 0>>, <<255, 0, 0>>}

\* colors the player moves the sliders to in the session model (128 is the default)
SliderSamples == {<<128, 128, 128>>, <<0, 0, 0>>}

\* green and blue slider values explored next to the target in the fine sample
FineSpan == 15

\* random.randint(a, b): an integer of a..b, both ends included; sampled at
\* SimLevels evenly spaced values
randint(a, b) == {a + ((b - a) * i) \div (SimLevels - 1) : i \in 0..(SimLevels - 1)}

\* the channels with randint(0, 256)
GridChannels_256 == randint(0, 256)

\* the channel values generate_random_color draws, sampled
GridChannels == randint(0, 255)

GridColors == {<<r, g, b>> : r \in GridChannels, g \in GridChannels, b \in GridChannels}

\* st.slider(label, 0, 255, 128): min_value, max_value and the default value
slider_min == 0

slider_max == 255

slider_default == 128

\* the values a slider can return
SliderRange == slider_min..slider_max

\* slider positions sampled like the generated colors
SliderGridChannels ==
    {slider_min + ((slider_max - slider_min) * i) \div (SimLevels - 1) :
         i \in 0..(SimLevels - 1)}

SliderGridColors ==
    {<<r, g, b>> : r \in SliderGridChannels, g \in SliderGridChannels,
                   b \in SliderGridChannels}

\* the fine sample: one target, every red slider value against it, green and
\* blue within a few steps of it
FineTarget == <<0, 0, 0>>

FineSliders ==
    {<<r, g, b>> : r \in SliderRange,
                   g \in {v \in SliderRange : v <= FineSpan},
                   b \in {v \in SliderRange : v <= 1}}

-----------------------------------------------------------------------------
(* Optional values *)

None == <<>>

Some(x) == <<x>>

-----------------------------------------------------------------------------
(* generate_random_color: the set of triples it may return (sampled) *)

generate_random_color == TargetSamples

-----------------------------------------------------------------------------
(* calculate_similarity *)

RECURSIVE FracLess(_, _, _, _)
\* a/b < c/d for naturals a, c and positive b, d, by continued fractions:
\* exact, and no product of two operands is ever formed (32-bit integers).
FracLess(a, b, c, d) ==
    LET qa == a \div b
        ra == a % b
        qc == c \div d
        rc == c % d
    IN  IF qa # qc THEN qa < qc
        ELSE IF rc = 0 THEN FALSE
        ELSE IF ra = 0 THEN TRUE
        ELSE FracLess(d, rc, b, ra)

RECURSIVE NearestBelow(_, _, _, _)
\* the largest j in lo..hi with j = lo or 1000 * sqrt(d2 / m2) > j - 1/2
\* (the condition is monotone in j, so bisection finds it)
NearestBelow(lo, hi, d2, m2) ==
    IF lo = hi THEN lo
    ELSE LET mid == (lo + hi + 1) \div 2
         IN  IF FracLess((2 * mid - 1) * (2 * mid - 1), 4000000, d2, m2)
             THEN NearestBelow(mid, hi, d2, m2)
             ELSE NearestBelow(lo, mid - 1, d2, m2)

\* distance / max_distance * 100, in tenths, to the nearest tenth:
\* the integer nearest to 1000 * sqrt(d2 / m2)
RoundedRatio(d2, m2) == NearestBelow(0, 1000 * ((d2 \div m2) + 1), d2, m2)

\* distance_squared with player[1] where player[0] is meant
distance_squared_swapped_index(target, player) ==
      (target[1] - player[2]) * (target[1] - player[2])
    + (target[2] - player[2]) * (target[2] - player[2])
    + (target[3] - player[3]) * (target[3] - player[3])

\* distance_squared with a sum where the red difference is meant
distance_squared_sum(target, player) ==
      (target[1] + player[1]) * (target[1] + player[1])
    + (target[2] - player[2]) * (target[2] - player[2])
    + (target[3] - player[3]) * (target[3] - player[3])

\* distance_squared without the blue term
distance_squared_no_blue(target, player) ==
      (target[1] - player[1]) * (target[1] - player[1])
    + (target[2] - player[2]) * (target[2] - player[2])

\* the radicand of distance: the squared Euclidean distance
distance_squared(target, player) ==
      (target[1] - player[1]) * (target[1] - player[1])
    + (target[2] - player[2]) * (target[2] - player[2])
    + (target[3] - player[3]) * (target[3] - player[3])

\* max_distance_squared without the factor 3
max_distance_squared_one_channel == 255 * 255

\* max_distance_squared with 256 for 255
max_distance_squared_256 == 256 * 256 * 3

\* the radicand of max_distance
max_distance_squared == 255 * 255 * 3

\* round(100 - distance / max_distance * 100, 1), in tenths.
\* The exact value is never half way between two tenths (that would need
\* 400 * m / 51 to be an odd integer for an integer m), and it stays at least
\* 1e-10 away from half way, far beyond the error of the float operations,
\* so the float result and the exact result round to the same tenth.
calculate_similarity(target, player) ==
    1000 - RoundedRatio(distance_squared(target, player), max_distance_squared)

-----------------------------------------------------------------------------
(* Session state *)

AllKeys == {"target_color", "score_history", "submitted", "current_score"}

EmptyState == [k \in {} |-> None]

\* ss with key k set to value v (st.session_state.k = v)
SetKey(ss, k, v) == [x \in (DOMAIN ss) \cup {k} |-> IF x = k THEN v ELSE ss[x]]

\* init_session_state that draws a new target on every run
init_session_state_reseed(ss, color) ==
    LET s1 == SetKey(ss, "target_color", color)
        s2 == IF "score_history" \notin DOMAIN s1
              THEN SetKey(s1, "score_history", <<>>) ELSE s1
        s3 == IF "submitted" \notin DOMAIN s2
              THEN SetKey(s2, "submitted", FALSE) ELSE s2
        s4 == IF "current_score" \notin DOMAIN s3
              THEN SetKey(s3, "current_score", None) ELSE s3
    IN  s4

\* init_session_state; color is what generate_random_color returns if called
init_session_state(ss, color) ==
    LET s1 == IF "target_color" \notin DOMAIN ss
              THEN SetKey(ss, "target_color", color) ELSE ss
        s2 == IF "score_history" \notin DOMAIN s1
              THEN SetKey(s1, "score_history", <<>>) ELSE s1
        s3 == IF "submitted" \notin DOMAIN s2
              THEN SetKey(s2, "submitted", FALSE) ELSE s2
        s4 == IF "current_score" \notin DOMAIN s3
              THEN SetKey(s3, "current_score", None) ELSE s3
    IN  s4

\* reset_game that also empties the history
reset_game_clear_history(ss, color) ==
    LET s1 == SetKey(ss, "target_color", color)
        s2 == SetKey(s1, "submitted", FALSE)
        s3 == SetKey(s2, "current_score", None)
    IN  SetKey(s3, "score_history", <<>>)

\* reset_game that forgets to clear current_score
reset_game_keep_score(ss, color) ==
    LET s1 == SetKey(ss, "target_color", color)
        s2 == SetKey(s1, "submitted", FALSE)
    IN  s2

\* reset_game that forgets to clear submitted
reset_game_keep_submitted(ss, color) ==
    LET s1 == SetKey(ss, "target_color", color)
        s3 == SetKey(s1, "current_score", None)
    IN  s3

\* reset_game; color is what generate_random_color returns
reset_game(ss, color) ==
    LET s1 == SetKey(ss, "target_color", color)
        s2 == SetKey(s1, "submitted", FALSE)
        s3 == SetKey(s2, "current_score", None)
    IN  s3

\* list.append(x) in place of list.insert(0, x)
InsertBack(list, x) == list \o <<x>>

\* list.insert(0, x)
InsertFront(list, x) == <<x>> \o list

\* list.pop(0) in place of list.pop()
PopFirst(list) == SubSeq(list, 2, Len(list))

\* list.pop(): the list without its last element
PopLast(list) == SubSeq(list, 1, Len(list) - 1)

\* submit_answer that stores the player's color as the target
submit_answer_retarget(ss, player_color) ==
    LET score == calculate_similarity(ss["target_color"], player_color)
        s1 == SetKey(ss, "current_score", Some(score))
        s2 == SetKey(s1, "submitted", TRUE)
        inserted == InsertFront(s2["score_history"], score)
        s3 == SetKey(s2, "score_history", inserted)
        s4 == IF Len(inserted) > 5
              THEN SetKey(s3, "score_history", PopLast(inserted)) ELSE s3
    IN  SetKey(s4, "target_color", player_color)

\* submit_answer that records a round's first submission only
submit_answer_first_only(ss, player_color) ==
    LET score == calculate_similarity(ss["target_color"], player_color)
        s1 == SetKey(ss, "current_score", Some(score))
        s2 == SetKey(s1, "submitted", TRUE)
        inserted == IF ss["submitted"] THEN s2["score_history"]
                    ELSE InsertFront(s2["score_history"], score)
        s3 == SetKey(s2, "score_history", inserted)
        s4 == IF Len(inserted) > 5
              THEN SetKey(s3, "score_history", PopLast(inserted)) ELSE s3
    IN  s4

\* submit_answer
submit_answer(ss, player_color) ==
    LET score == calculate_similarity(ss["target_color"], player_color)
        s1 == SetKey(ss, "current_score", Some(score))
        s2 == SetKey(s1, "submitted", TRUE)
        inserted == InsertFront(s2["score_history"], score)
        s3 == SetKey(s2, "score_history", inserted)
        s4 == IF Len(inserted) > 5
              THEN SetKey(s3, "score_history", PopLast(inserted)) ELSE s3
    IN  s4

-----------------------------------------------------------------------------
(* Rendering *)

\* the digits of the format type x (lowercase)
HexDigits ==
    <<"0", "1", "2", "3", "4", "5", "6", "7", "8", "9", "a", "b", "c", "d", "e", "f">>

RECURSIVE FormatX(_)
\* format(v, "x") for a natural v: its hex digits, most significant first
FormatX(v) ==
    IF v < 16 THEN <<HexDigits[v + 1]>>
    ELSE FormatX(v \div 16) \o <<HexDigits[(v % 16) + 1]>>

\* format(v, "02x"): at least two characters, filled with zeros on the left
Format02x(v) ==
    LET digits == FormatX(v)
    IN  IF Len(digits) < 2 THEN <<"0">> \o digits ELSE digits

\* rgb_to_hex with the format x where 02x is meant
rgb_to_hex_unpadded(r, g, b) == <<"#">> \o FormatX(r) \o FormatX(g) \o FormatX(b)

\* rgb_to_hex: the color code as a sequence of characters
rgb_to_hex(r, g, b) == <<"#">> \o Format02x(r) \o Format02x(g) \o Format02x(b)

\* display_color_box: the color code it puts into the box's style
display_color_box(color) == rgb_to_hex(color[1], color[2], color[3])

\* the result display with > where >= 95 is meant
result_messages_strict(ss) ==
    IF ss["submitted"] /\ ss["current_score"] # None
    THEN LET score == ss["current_score"][1]
         IN  IF score > 950 THEN <<"success">>
             ELSE IF score >= 800 THEN <<"info">>
             ELSE IF score >= 600 THEN <<"warning">>
             ELSE <<"error">>
    ELSE <<>>

\* the result display of main(): the message boxes it draws for the session,
\* in order, each named by the call that draws it (st.success, st.info,
\* st.warning, st.error); scores are tenths, so 95 is 950
result_messages(ss) ==
    IF ss["submitted"] /\ ss["current_score"] # None
    THEN LET score == ss["current_score"][1]
         IN  IF score >= 950 THEN <<"success">>
             ELSE IF score >= 800 THEN <<"info">>
             ELSE IF score >= 600 THEN <<"warning">>
             ELSE <<"error">>
    ELSE <<>>

-----------------------------------------------------------------------------
(* Script runs *)

\* the page has been drawn at least once, so its widgets can send events
Rendered == DOMAIN session_state = AllKeys

\* main() with no widget event: the first load, or a plain re-render
Rerun ==
    /\ \E c \in generate_random_color :
           session_state' = init_session_state(session_state, c)
    /\ UNCHANGED <<slider, score_log, last_call>>

\* main() after the player moved the sliders to p; neither button is pressed
SliderChange ==
    /\ Rendered
    /\ \E p \in SliderSamples : slider' = p
    /\ \E c \in generate_random_color :
           session_state' = init_session_state(session_state, c)
    /\ UNCHANGED <<score_log, last_call>>

\* main() with the submit button pressed: submit_answer(player_color)
Submit ==
    /\ Rendered
    /\ \E c \in generate_random_color :
           LET ss == init_session_state(session_state, c)
           IN  /\ session_state' = submit_answer(ss, slider)
               /\ score_log' = Append(score_log,
                      calculate_similarity(ss["target_color"], slider))
               /\ last_call' = IF ss["submitted"] THEN "resubmit" ELSE "submit"
    /\ UNCHANGED slider

ClickSubmit ==
    /\ Len(score_log) < MaxSubmits
    /\ Submit

\* main() with the new-game button pressed: reset_game(), then st.rerun()
\* runs main() again, which calls init_session_state once more
ClickNewGame ==
    /\ Rendered
    /\ \E c1 \in generate_random_color, c2 \in generate_random_color,
          c3 \in generate_random_color :
           session_state' =
               init_session_state(
                   reset_game(init_session_state(session_state, c1), c2), c3)
    /\ last_call' = "reset"
    /\ UNCHANGED <<slider, score_log>>

Init ==
    /\ session_state = EmptyState
    /\ slider = <<slider_default, slider_default, slider_default>>
    /\ score_log = <<>>
    /\ last_call = "none"

Next == Rerun \/ SliderChange \/ ClickSubmit \/ ClickNewGame

Spec == Init /\ [][Next]_vars

-----------------------------------------------------------------------------
(* One submission from any sampled target and slider position *)

SimInit ==
    /\ \/ /\ \E c \in GridColors :
                  session_state = init_session_state(EmptyState, c)
          /\ slider \in SliderGridColors
       \/ /\ FineTarget \in GridColors
          /\ session_state = init_session_state(EmptyState, FineTarget)
          /\ slider \in FineSliders
    /\ score_log = <<>>
    /\ last_call = "none"

SimSubmit ==
    /\ score_log = <<>>
    /\ Submit

SimNext == SimSubmit

SpecSim == SimInit /\ [][SimNext]_vars

-----------------------------------------------------------------------------
(* submit_answer called directly, with any triple as the player color *)

\* player colors a caller passes: one within the channel range, three not
CallerColors == {<<0, 0, 0>>, <<256, 0, 0>>, <<-1, 0, 0>>, <<0, 300, 0>>}

\* submit_answer(p) on the session as it is
SubmitCall(p) ==
    /\ Rendered
    /\ session_state' = submit_answer(session_state, p)
    /\ score_log' = Append(score_log,
           calculate_similarity(session_state["target_color"], p))
    /\ last_call' = IF session_state["submitted"] THEN "resubmit" ELSE "submit"
    /\ UNCHANGED slider

ApiInit ==
    /\ \E c \in GridColors : session_state = init_session_state(EmptyState, c)
    /\ slider = <<slider_default, slider_default, slider_default>>
    /\ score_log = <<>>
    /\ last_call = "none"

ApiSubmit ==
    /\ score_log = <<>>
    /\ \E p \in CallerColors : SubmitCall(p)

ApiNext == ApiSubmit

SpecApi == ApiInit /\ [][ApiNext]_vars

-----------------------------------------------------------------------------
(* Accessors and step predicates used by the properties *)

target_color == session_state["target_color"]

score_history == session_state["score_history"]

submitted == session_state["submitted"]

current_score == session_state["current_score"]

Min(a, b) == IF a < b THEN a ELSE b

\* the step ran submit_answer (the log of computed scores grew)
SubmitStep == Rendered /\ score_log' # score_log

\* the score the submit_answer of this step computed
NewScore == score_log'[Len(score_log')]

-----------------------------------------------------------------------------
(* Properties of the session *)

\* C1: after n calls of submit_answer, interleaved with any reset_game calls,
\* score_history holds min(n, 5) entries, which are the scores of the latest
\* min(n, 5) submissions, newest first; entry 0 is the latest computed score.
C1_HistoryIsLatestSubmissions ==
    Rendered =>
        LET n == Len(score_log)
        IN  /\ Len(score_history) = Min(n, 5)
            /\ \A i \in 1..Len(score_history) :
                   score_history[i] = score_log[n - i + 1]

\* six submissions, the evicted first score unlike its neighbours
C1_Witness ==
    /\ Rendered
    /\ Len(score_log) = 6
    /\ score_log[1] # score_log[2]
    /\ score_log[5] # score_log[6]
    /\ score_history[1] = score_log[6]

\* C2: score_history never holds more than 5 entries; a submission made with
\* 5 entries held drops exactly the oldest (last) one.
C2_HistoryBounded ==
    /\ [](Rendered => Len(score_history) <= 5)
    /\ [][(SubmitStep /\ Len(score_history) = 5) =>
             score_history' = <<NewScore>> \o SubSeq(score_history, 1, 4)]_vars

\* a sixth submission has evicted an entry that differs from the new oldest
C2_Witness ==
    /\ Rendered
    /\ Len(score_log) = 6
    /\ Len(score_history) = 5
    /\ score_history[5] = score_log[2]
    /\ score_log[1] # score_log[2]
    /\ last_call \in {"submit", "resubmit"}

\* C3: reset_game leaves score_history as it is, length and contents; of the
\* session's fields it changes at most target_color, current_score, submitted.
C3_ResetKeepsHistory ==
    [][ClickNewGame =>
          /\ DOMAIN session_state' = DOMAIN session_state
          /\ \A k \in AllKeys \ {"target_color", "current_score", "submitted"} :
                 session_state'[k] = session_state[k]]_vars

\* a reset_game has run on a session whose history holds scores
C3_Witness ==
    /\ Rendered
    /\ last_call = "reset"
    /\ Len(score_history) >= 2
    /\ submitted = FALSE

\* C4: submit_answer never changes target_color; target_color changes only
\* in a reset_game step.
C4_TargetChangesOnlyOnReset ==
    [][Rendered =>
          /\ (SubmitStep => target_color' = target_color)
          /\ (target_color' # target_color => ClickNewGame)]_vars

\* several submissions in one round, made from different slider positions
C4_Witness ==
    /\ Rendered
    /\ last_call = "resubmit"
    /\ Len(score_log) >= 3
    /\ score_history[1] # score_history[2]
    /\ slider # target_color

\* C5: submitted is true exactly when current_score is set; both are cleared
\* by initialisation and reset_game, and only submit_answer sets them.
C5_SubmittedIffScore ==
    /\ [](Rendered => (submitted = TRUE <=> current_score # None))
    /\ [][Rendered /\ (submitted' # submitted \/ current_score' # current_score) =>
             \/ SubmitStep /\ submitted' = TRUE /\ current_score' # None
             \/ ClickNewGame /\ submitted' = FALSE /\ current_score' = None]_vars

\* a round with a score set, after an earlier round was reset
C5_Witness ==
    /\ Rendered
    /\ submitted = TRUE
    /\ current_score # None
    /\ last_call = "submit"
    /\ Len(score_log) = 2

\* C6 as stated: a resubmission (submit_answer with submitted already true)
\* overwrites current_score and adds no further entry to score_history.
C6_ResubmitAddsNoEntry ==
    [][(SubmitStep /\ submitted = TRUE) =>
          /\ current_score' = Some(NewScore)
          /\ score_history' = score_history]_vars

\* C6 amended: a resubmission overwrites current_score and, like any
\* submission, puts its score at the front of score_history, which keeps its
\* five newest entries.
C6_ResubmitAddsEntry ==
    [][(SubmitStep /\ submitted = TRUE) =>
          /\ current_score' = Some(NewScore)
          /\ Len(score_history') = Min(Len(score_history) + 1, 5)
          /\ score_history' =
                 SubSeq(<<NewScore>> \o score_history, 1, Len(score_history'))]_vars

\* a second submission in the first round: two entries for one round
C6_Witness ==
    /\ Rendered
    /\ last_call = "resubmit"
    /\ Len(score_log) = 2
    /\ Len(score_history) = 2
    /\ current_score = Some(score_history[1])

-----------------------------------------------------------------------------
(* Properties of calculate_similarity, on the scores submit_answer stores *)

\* C7: calculate_similarity(c, c) is exactly 100.0 for every color c.
C7_IdenticalIsPerfect ==
    (Rendered /\ submitted = TRUE /\ slider = target_color) =>
        current_score = Some(1000)

\* a submission of the target itself, the target not a shade of grey
C7_Witness ==
    /\ Rendered
    /\ submitted = TRUE
    /\ slider = target_color
    /\ target_color[1] # target_color[2]

\* C8: calculate_similarity(target, guess) lies in [0.0, 100.0], so every
\* value stored in current_score or score_history does.
C8_ScoreInRange ==
    Rendered =>
        /\ current_score # None =>
               (current_score[1] >= 0 /\ current_score[1] <= 1000)
        /\ \A i \in 1..Len(score_history) :
               score_history[i] >= 0 /\ score_history[i] <= 1000

\* a stored score near the bottom of the range, for colors almost opposite
C8_Witness ==
    /\ Rendered
    /\ current_score # None
    /\ current_score[1] > 0
    /\ current_score[1] < 100
    /\ score_history = <<current_score[1]>>

\* C9: calculate_similarity(a, b) = calculate_similarity(b, a).
C9_Symmetric ==
    (Rendered /\ submitted = TRUE) =>
        current_score = Some(calculate_similarity(slider, target_color))

\* a score for two colors that differ in every channel
C9_Witness ==
    /\ Rendered
    /\ submitted = TRUE
    /\ \A i \in 1..3 : slider[i] # target_color[i]
    /\ slider[1] # slider[2]
    /\ target_color[1] # target_color[2]

\* C10: calculate_similarity((0,0,0), (255,255,255)) is exactly 0.0.
C10_BlackWhiteIsZero ==
    (/\ Rendered
     /\ submitted = TRUE
     /\ target_color = <<0, 0, 0>>
     /\ slider = <<255, 255, 255>>) =>
        current_score = Some(0)

\* white submitted against a black target
C10_Witness ==
    /\ Rendered
    /\ submitted = TRUE
    /\ target_color = <<0, 0, 0>>
    /\ slider = <<255, 255, 255>>
    /\ score_log = <<0>>

\* C11 as stated: for target (255,0,0) and guess (0,255,0) the score, rounded
\* to one decimal place, is 18.3.
C11_RedGreenIs183 ==
    (/\ Rendered
     /\ submitted = TRUE
     /\ target_color = <<255, 0, 0>>
     /\ slider = <<0, 255, 0>>) =>
        current_score = Some(183)

\* C11 amended: for target (255,0,0) and guess (0,255,0) the score, rounded
\* to one decimal place, is 18.4 (the unrounded value is 18.35).
C11_RedGreenIs184 ==
    (/\ Rendered
     /\ submitted = TRUE
     /\ target_color = <<255, 0, 0>>
     /\ slider = <<0, 255, 0>>) =>
        current_score = Some(184)

\* green submitted against a red target
C11_Witness ==
    /\ Rendered
    /\ submitted = TRUE
    /\ target_color = <<255, 0, 0>>
    /\ slider = <<0, 255, 0>>
    /\ Len(score_log) = 1

-----------------------------------------------------------------------------
(* Properties of the session's life cycle *)

\* C12: the session starts in AwaitingGuess (submitted false, current_score
\* unset, score_history empty, target_color set); right after every
\* reset_game it is in AwaitingGuess again; it is in Submitted only if a
\* submit_answer ran since the last reset_game.
C12_AwaitingAtStartAndAfterReset ==
    /\ [][(~Rendered /\ Rendered') =>
             /\ submitted' = FALSE
             /\ current_score' = None
             /\ score_history' = <<>>
             /\ target_color' \in generate_random_color]_vars
    /\ [][ClickNewGame => (submitted' = FALSE /\ current_score' = None)]_vars
    /\ []((Rendered /\ submitted = TRUE) => last_call \in {"submit", "resubmit"})

\* a reset_game that followed a submission: the round awaits a guess again
C12_Witness ==
    /\ Rendered
    /\ last_call = "reset"
    /\ Len(score_log) >= 1
    /\ submitted = FALSE
    /\ current_score = None
    /\ target_color = <<255, 0, 0>>

-----------------------------------------------------------------------------
(* Properties of the colors *)

\* C13: every channel of target_color is an integer in [0,255], and so is
\* every channel of the player color the page passes to submit_answer.
C13_ChannelsInRange ==
    Rendered =>
        /\ \A i \in 1..3 : target_color[i] \in 0..255
        /\ \A i \in 1..3 : slider[i] \in 0..255

\* a submission of an interior slider position against an interior target
C13_Witness ==
    /\ Rendered
    /\ submitted = TRUE
    /\ target_color = <<127, 63, 191>>
    /\ slider = <<191, 127, 63>>

-----------------------------------------------------------------------------
(* Properties of the page *)

\* C14: a result message is shown only in the Submitted state, and then
\* exactly one, chosen with inclusive lower bounds: score >= 95 excellent
\* (st.success), 80 <= score < 95 good (st.info), 60 <= score < 80 fair
\* (st.warning), score < 60 poor (st.error).
C14_OneBandByThreshold ==
    Rendered =>
        LET shown == result_messages(session_state)
        IN  /\ (shown # <<>>) => submitted = TRUE
            /\ submitted = TRUE =>
                   /\ Len(shown) = 1
                   /\ (shown[1] = "success") <=> (current_score[1] >= 950)
                   /\ (shown[1] = "info") <=>
                          (current_score[1] >= 800 /\ current_score[1] < 950)
                   /\ (shown[1] = "warning") <=>
                          (current_score[1] >= 600 /\ current_score[1] < 800)
                   /\ (shown[1] = "error") <=> (current_score[1] < 600)

\* a score of exactly 95.0 is shown as excellent
C14_Witness ==
    /\ Rendered
    /\ submitted = TRUE
    /\ current_score = Some(950)
    /\ result_messages(session_state) = <<"success">>

\* the value of a lowercase hex digit
HexValue(ch) == CHOOSE d \in 0..15 : HexDigits[d + 1] = ch

\* the channels a color code #rrggbb stands for
HexToRgb(code) ==
    <<16 * HexValue(code[2]) + HexValue(code[3]),
      16 * HexValue(code[4]) + HexValue(code[5]),
      16 * HexValue(code[6]) + HexValue(code[7])>>

\* code is # and six lowercase hex digits, and stands for color
IsCodeOf(code, color) ==
    /\ Len(code) = 7
    /\ code[1] = "#"
    /\ \A i \in 2..7 : \E d \in 1..16 : HexDigits[d] = code[i]
    /\ HexToRgb(code) = color

\* C15: for every color with channels in [0,255], rgb_to_hex gives # and
\* exactly six lowercase hex digits, two per channel, and decoding them gives
\* the color back, so different colors get different codes;
\* (255,0,128) gives #ff0080.
C15_HexRoundTrip ==
    Rendered =>
        /\ IsCodeOf(display_color_box(target_color), target_color)
        /\ IsCodeOf(display_color_box(slider), slider)
        /\ (display_color_box(target_color) = display_color_box(slider)) =>
               target_color = slider
        /\ rgb_to_hex(255, 0, 128) = <<"#", "f", "f", "0", "0", "8", "0">>

\* a player color with a channel that needs its leading zero
C15_Witness ==
    /\ Rendered
    /\ slider = <<171, 9, 1>>
    /\ display_color_box(slider) = <<"#", "a", "b", "0", "9", "0", "1">>

-----------------------------------------------------------------------------
(* Properties of error handling *)

\* every channel is in [0,255]
ValidColor(color) == \A i \in 1..3 : color[i] \in 0..255

\* C16: submitting a color with a channel outside [0,255] fails with
\* InvalidColorComponent: it produces no score and leaves target_color,
\* current_score, submitted and score_history as they were.
C16_InvalidColorRejected ==
    [][\A p \in CallerColors :
          (~ValidColor(p) /\ SubmitCall(p)) =>
              (session_state' = session_state /\ score_log' = score_log)]_vars

-----------------------------------------------------------------------------
(* Properties of re-rendering *)

\* C17: the session is seeded once: init_session_state, run by every
\* re-render (also one caused by a slider alone), leaves target_color,
\* score_history, submitted and current_score as they are once they exist,
\* so after creation only submit_answer and reset_game change the session.
C17_SeededOnce ==
    /\ [](Rendered =>
             \A c \in generate_random_color :
                 init_session_state(session_state, c) = session_state)
    /\ [][(Rendered /\ (Rerun \/ SliderChange)) =>
             session_state' = session_state]_vars
    /\ [][(Rendered /\ session_state' # session_state) =>
             (SubmitStep \/ ClickNewGame)]_vars

\* the sliders were moved on a session that holds a target and three scores
C17_Witness ==
    /\ Rendered
    /\ slider = <<0, 0, 0>>
    /\ target_color = <<255, 0, 0>>
    /\ submitted = TRUE
    /\ Len(score_history) = 3
    /\ score_history[1] # score_history[3]

-----------------------------------------------------------------------------
(* Further properties *)

\* C18: whenever submitted is true, score_history is not empty and its entry
\* at index 0 is current_score.
C18_CurrentScoreHeadsHistory ==
    (Rendered /\ submitted = TRUE) =>
        /\ score_history # <<>>
        /\ current_score = Some(score_history[1])

\* a full history headed by a resubmission's score, unlike the one before it
C18_Witness ==
    /\ Rendered
    /\ submitted = TRUE
    /\ last_call = "resubmit"
    /\ Len(score_history) = 5
    /\ score_history[1] # score_history[2]
    /\ current_score = Some(score_history[1])

\* C19: calculate_similarity(a, b) is 100.0 only if a and b are equal in all
\* three channels; rounding lifts no other pair to 100.0.
C19_PerfectOnlyIfIdentical ==
    (Rendered /\ submitted = TRUE /\ current_score = Some(1000)) =>
        slider = target_color

\* the nearest miss: one channel off by one scores 99.8
C19_Witness ==
    /\ Rendered
    /\ submitted = TRUE
    /\ target_color = <<0, 0, 0>>
    /\ slider = <<0, 0, 1>>
    /\ current_score = Some(998)

====
